---- MODULE Spec2Model ----
(***************************************************************************)
(* Safety monitoring and control-state core of the high-voltage control    *)
(* system (src/utils/control_system.py): SafetyMonitor (classification and *)
(* the safety history ledger) and CentralControlSystem (the orchestrator   *)
(* and its control-loop thread).                                           *)
(*                                                                         *)
(* Units.  Sensor values and thresholds are integers: voltage in V,        *)
(* current in A, temperature in degrees C, insulation resistance in MOhm,  *)
(* capacitor charge and ground resistance in hundredths (0.9 is 90, 1.0 is *)
(* 100).  The source compares floats, v > T * 1.2; for the default         *)
(* thresholds the float products are 1000.0*1.2 = 1200.0, 1000.0*1.3 =     *)
(* 1300.0, 50.0*1.2 = 60.0, 50.0*1.3 = 65.0, 85.0*1.2 = 102.0 exactly and  *)
(* 85.0*1.1 = 93.50000000000001, so on the integer values used here        *)
(* v > T * k/10 and 10 * v > k * T agree.                                  *)
(***************************************************************************)
EXTENDS Integers, Sequences, FiniteSets, TLC

(***************************************************************************)
(* Bounds of the model.                                                    *)
(***************************************************************************)
\* Capacity of the safety history (SafetyMonitor.max_history_size, an
\* instance attribute whose default is 1000), scaled down.
max_history_size == 2
\* Number of safety checks of one behaviour (caps the clock).
MaxChecks == 3
\* Cap of the emergency counter (the source's counter is unbounded).
MaxEmergencyCount == 4
\* Cap of the number of control-loop threads alive at once.
MaxThreads == 2
\* Last instant of the clock where the ledger is exercised on its own.
MaxTime == 5
\* Largest window get_safety_summary is asked for, in clock units (hours).
MaxHours == 3
\* Largest count get_recent_alerts is asked for.
MaxCount == 3
\* Longest ledger get_recent_alerts is applied to.
MaxLedger == 7
\* Most items waiting in the input queue.
MaxQueue == 1
\* Callers that each make one call of the orchestrator, concurrently.
MaxCallers == 3
\* Concurrent callers of the monitor, and the appends they make in all.
MaxMonitorCallers == 2
MaxRaceAppends == 4

(***************************************************************************)
(* SafetyLevel, SafetyThresholds.                                          *)
(***************************************************************************)
NORMAL == "normal"
WARNING == "warning"
DANGER == "danger"
CRITICAL == "critical"
SafetyLevel == {NORMAL, WARNING, DANGER, CRITICAL}

SafetyThresholds ==
  [voltage |-> 1000, current |-> 50, temperature |-> 85,
   capacitor_charge |-> 90, discharge_rate |-> 5,
   insulation_resistance |-> 200, ground_resistance |-> 100]

\* self.warning_levels: the label that starts the description.
warning_levels ==
  [l \in SafetyLevel |->
     CASE l = NORMAL -> "green_normal"
       [] l = WARNING -> "yellow_warning"
       [] l = DANGER -> "red_danger"
       [] l = CRITICAL -> "stop_critical"]

max_emergency_shutdowns == 3

\* Mutant of Exceeds: the comparison is not strict.
Exceeds_not_strict(v, T, tenths) == 10 * v >= tenths * T

\* v > T * (tenths / 10) of the source, on integers.
Exceeds(v, T, tenths) == 10 * v > tenths * T

(***************************************************************************)
(* SafetyMonitor.check_safety_status: the six rules in the order of the    *)
(* source.  st is the pair of locals [max_level, warnings_list].           *)
(***************************************************************************)
voltage_rule(sensor_data, st) ==
  IF "voltage" \in DOMAIN sensor_data
  THEN LET voltage == sensor_data["voltage"]
           T == SafetyThresholds.voltage
       IN  IF Exceeds(voltage, T, 12)
           THEN [max_level |-> IF Exceeds(voltage, T, 13) THEN CRITICAL ELSE DANGER,
                 warnings_list |-> Append(st.warnings_list, "voltage_high")]
           ELSE IF voltage > T
           THEN [max_level |-> IF st.max_level # DANGER THEN WARNING ELSE st.max_level,
                 warnings_list |-> Append(st.warnings_list, "voltage_warning")]
           ELSE st
  ELSE st

current_rule(sensor_data, st) ==
  IF "current" \in DOMAIN sensor_data
  THEN LET current == sensor_data["current"]
           T == SafetyThresholds.current
       IN  IF Exceeds(current, T, 12)
           THEN [max_level |-> IF Exceeds(current, T, 13) THEN CRITICAL ELSE DANGER,
                 warnings_list |-> Append(st.warnings_list, "current_high")]
           ELSE IF current > T
           THEN [max_level |-> IF st.max_level # DANGER THEN WARNING ELSE st.max_level,
                 warnings_list |-> Append(st.warnings_list, "current_warning")]
           ELSE st
  ELSE st

temperature_rule(sensor_data, st) ==
  IF "temperature" \in DOMAIN sensor_data
  THEN LET temp == sensor_data["temperature"]
           T == SafetyThresholds.temperature
       IN  IF Exceeds(temp, T, 11)
           THEN [max_level |-> IF Exceeds(temp, T, 12) THEN CRITICAL ELSE DANGER,
                 warnings_list |-> Append(st.warnings_list, "temperature_high")]
           ELSE st
  ELSE st

capacitor_charge_rule(sensor_data, st) ==
  IF "capacitor_charge" \in DOMAIN sensor_data
  THEN LET charge == sensor_data["capacitor_charge"]
       IN  IF charge > SafetyThresholds.capacitor_charge
           THEN [max_level |-> IF st.max_level # CRITICAL THEN DANGER ELSE st.max_level,
                 warnings_list |-> Append(st.warnings_list, "capacitor_charge_high")]
           ELSE st
  ELSE st

\* Mutant of insulation_resistance_rule: the comparison is not strict.
insulation_resistance_rule_not_strict(sensor_data, st) ==
  IF "insulation_resistance" \in DOMAIN sensor_data
  THEN LET insulation == sensor_data["insulation_resistance"]
       IN  IF insulation <= SafetyThresholds.insulation_resistance
           THEN [max_level |-> WARNING,
                 warnings_list |-> Append(st.warnings_list, "insulation_resistance_low")]
           ELSE st
  ELSE st

insulation_resistance_rule(sensor_data, st) ==
  IF "insulation_resistance" \in DOMAIN sensor_data
  THEN LET insulation == sensor_data["insulation_resistance"]
       IN  IF insulation < SafetyThresholds.insulation_resistance
           THEN [max_level |-> WARNING,
                 warnings_list |-> Append(st.warnings_list, "insulation_resistance_low")]
           ELSE st
  ELSE st

ground_resistance_rule(sensor_data, st) ==
  IF "ground_resistance" \in DOMAIN sensor_data
  THEN LET ground == sensor_data["ground_resistance"]
       IN  IF ground > SafetyThresholds.ground_resistance
           THEN [max_level |-> WARNING,
                 warnings_list |-> Append(st.warnings_list, "ground_resistance_high")]
           ELSE st
  ELSE st

\* The locals after the six rules.
evaluate_rules(sensor_data) ==
  ground_resistance_rule(sensor_data,
    insulation_resistance_rule(sensor_data,
      capacitor_charge_rule(sensor_data,
        temperature_rule(sensor_data,
          current_rule(sensor_data,
            voltage_rule(sensor_data,
              [max_level |-> NORMAL, warnings_list |-> <<>>]))))))

\* warnings_list[:2]
FirstTwo(s) == SubSeq(s, 1, IF Len(s) < 2 THEN Len(s) ELSE 2)

\* Mutant of check_safety_status: the record keeps only the messages the
\* description shows.
check_safety_status_short_record(sensor_data, ts) ==
  LET st == evaluate_rules(sensor_data)
  IN  [max_level |-> st.max_level,
       status_desc |-> [label |-> warning_levels[st.max_level],
                        shown |-> FirstTwo(st.warnings_list)],
       safety_record |-> [timestamp |-> ts,
                          level |-> st.max_level,
                          data |-> sensor_data,
                          warnings |-> FirstTwo(st.warnings_list)]]

\* The value check_safety_status returns at time ts:
\* (max_level, status_desc, safety_record).
check_safety_status(sensor_data, ts) ==
  LET st == evaluate_rules(sensor_data)
  IN  [max_level |-> st.max_level,
       status_desc |-> [label |-> warning_levels[st.max_level],
                        shown |-> FirstTwo(st.warnings_list)],
       safety_record |-> [timestamp |-> ts,
                          level |-> st.max_level,
                          data |-> sensor_data,
                          warnings |-> st.warnings_list]]

\* Mutant of record_history: the truncation keeps one record too many.
record_history_one_more(history, safety_record) ==
  LET appended == Append(history, safety_record)
  IN  IF Len(appended) > max_history_size + 1
      THEN SubSeq(appended, Len(appended) - max_history_size, Len(appended))
      ELSE appended

\* Mutant of record_history: the truncation keeps the oldest records.
record_history_keep_oldest(history, safety_record) ==
  LET appended == Append(history, safety_record)
  IN  IF Len(appended) > max_history_size
      THEN SubSeq(appended, 1, max_history_size)
      ELSE appended

\* self.safety_history after the append and the truncation.
record_history(history, safety_record) ==
  LET appended == Append(history, safety_record)
  IN  IF Len(appended) > max_history_size
      THEN SubSeq(appended, Len(appended) - max_history_size + 1, Len(appended))
      ELSE appended

(***************************************************************************)
(* Sensor readings.  A reading is a dictionary: a function whose domain is *)
(* the set of metrics present.                                             *)
(***************************************************************************)
Absent == -1
Dict(g) == [m \in {k \in DOMAIN g : g[k] # Absent} |-> g[m]]

\* Every metric inside its limits (the centre of SensorSimulator's ranges).
NormalReading ==
  [voltage |-> 900, current |-> 30, temperature |-> 60,
   capacitor_charge |-> 70, discharge_rate |-> 3,
   insulation_resistance |-> 1000, ground_resistance |-> 10]

\* What the sensor source hands to perform_safety_check: the sensor source
\* is the orchestrator's replaceable collaborator (self.sensor_simulator),
\* so a check may see any reading.  One reading per outcome: normal, a
\* voltage warning, voltage at exactly 1.3 times the threshold, voltage
\* above it.
SensorReadings ==
  {Dict(NormalReading),
   Dict([NormalReading EXCEPT !.voltage = 1100]),
   Dict([NormalReading EXCEPT !.voltage = 1300]),
   Dict([NormalReading EXCEPT !.voltage = 1400])}

\* The readings check_safety_status is classified on: every metric absent,
\* inside its limit, on each boundary and in each tier.
AllReadings ==
  {Dict([voltage |-> v, current |-> c, temperature |-> t,
         capacitor_charge |-> q, insulation_resistance |-> i,
         ground_resistance |-> g]) :
     v \in {Absent, 1000, 1100, 1200, 1250, 1300, 1301},
     c \in {Absent, 50, 55, 60, 62, 65, 66},
     t \in {Absent, 85, 93, 94, 102, 103},
     q \in {Absent, 90, 91},
     i \in {Absent, 199, 200},
     g \in {Absent, 100, 101}}

\* The arguments of set_control_parameters.
ParamUpdates == {Dict([frequency |-> 1])}

(***************************************************************************)
(* State.                                                                  *)
(***************************************************************************)
VARIABLES
  safety_history,          \* SafetyMonitor.safety_history
  now,                     \* the clock datetime.now() reads
  appended_at,             \* history variable: the timestamp of every append
  is_running,              \* CentralControlSystem.is_running
  system_status,           \* CentralControlSystem.system_status
  safety_enabled,          \* CentralControlSystem.safety_enabled
  auto_shutdown_enabled,   \* CentralControlSystem.auto_shutdown_enabled
  emergency_shutdown_count,\* CentralControlSystem.emergency_shutdown_count
  control_parameters,      \* CentralControlSystem.control_parameters
  control_threads,         \* live _real_time_control_loop threads, by position
  sensor_input,            \* the reading handed to a direct check_safety_status
  ret,                     \* the last call and what it returned
  real_time_data,          \* CentralControlSystem.real_time_data, the input queue
  pc                       \* position and locals of each call or loop thread in progress

monitor_vars == <<safety_history, now, appended_at>>
orch_vars == <<is_running, system_status, safety_enabled, emergency_shutdown_count>>
thread_vars == <<real_time_data, pc>>
vars == <<safety_history, now, appended_at, is_running, system_status, safety_enabled,
          auto_shutdown_enabled, emergency_shutdown_count,
          control_parameters, control_threads, sensor_input, ret,
          real_time_data, pc>>

\* What a call returned: is_safe, action and level are those of
\* perform_safety_check (level alone for check_safety_status); raised says
\* that the call ended in an exception.
Returned(op, is_safe, action, level, raised) ==
  [op |-> op, is_safe |-> is_safe, action |-> action, level |-> level,
   raised |-> raised]
ReturnedNone(op) == Returned(op, TRUE, "none", NORMAL, FALSE)

\* The orchestrator fields the shutdown methods write.
Orch ==
  [is_running |-> is_running, system_status |-> system_status,
   safety_enabled |-> safety_enabled,
   emergency_shutdown_count |-> emergency_shutdown_count]

SetOrch(o) ==
  /\ is_running' = o.is_running
  /\ system_status' = o.system_status
  /\ safety_enabled' = o.safety_enabled
  /\ emergency_shutdown_count' = o.emergency_shutdown_count

\* CentralControlSystem.__init__ and SafetyMonitor.__init__
\* SafetyMonitor.__init__: an empty ledger.
InitMonitor ==
  /\ safety_history = <<>>
  /\ now = 0
  /\ appended_at = <<>>

\* CentralControlSystem.__init__: the orchestrator's fields.
InitOrch ==
  /\ is_running = FALSE
  /\ system_status = "stopped"
  /\ safety_enabled = TRUE
  /\ auto_shutdown_enabled = TRUE
  /\ emergency_shutdown_count = 0
  /\ control_parameters = Dict(<<>>)
  /\ control_threads = [at_while |-> 0, at_sleep |-> 0]
  /\ ret = ReturnedNone("__init__")

\* The input queue is empty; no call is in progress and no thread has been
\* started.
InitThreads ==
  /\ real_time_data = <<>>
  /\ pc = <<>>

InitCommon == InitMonitor /\ InitOrch /\ InitThreads

Init ==
  /\ InitCommon
  /\ sensor_input = Dict(NormalReading)

(***************************************************************************)
(* CentralControlSystem: the methods as functions of the fields.           *)
(***************************************************************************)
\* Mutant of emergency_shutdown: the counter is not incremented.
emergency_shutdown_no_count(self) ==
  [is_running |-> FALSE,
   system_status |-> "emergency_stopped",
   emergency_shutdown_count |-> self.emergency_shutdown_count,
   safety_enabled |-> IF self.emergency_shutdown_count >= max_emergency_shutdowns
                      THEN FALSE ELSE self.safety_enabled]

\* Mutant of emergency_shutdown: the lockout needs one shutdown more.
emergency_shutdown_late_lockout(self) ==
  LET count == self.emergency_shutdown_count + 1
  IN  [is_running |-> FALSE,
       system_status |-> "emergency_stopped",
       emergency_shutdown_count |-> count,
       safety_enabled |-> IF count > max_emergency_shutdowns
                          THEN FALSE ELSE self.safety_enabled]

emergency_shutdown(self) ==
  LET count == self.emergency_shutdown_count + 1
  IN  [is_running |-> FALSE,
       system_status |-> "emergency_stopped",
       emergency_shutdown_count |-> count,
       safety_enabled |-> IF count >= max_emergency_shutdowns
                          THEN FALSE ELSE self.safety_enabled]

\* Mutant of safe_shutdown: the control loop is left running.
safe_shutdown_keeps_running(self) ==
  [self EXCEPT !.system_status = "stopped"]

safe_shutdown(self) ==
  [self EXCEPT !.is_running = FALSE, !.system_status = "stopped"]

\* Mutant of safety_policy: a WARNING stops the system as a DANGER does.
safety_policy_warning_stops(self, level, auto_shutdown) ==
  IF level = CRITICAL /\ auto_shutdown
  THEN [is_safe |-> FALSE, action |-> "emergency_shutdown",
        orch |-> emergency_shutdown(self)]
  ELSE IF level = DANGER /\ auto_shutdown
  THEN [is_safe |-> FALSE, action |-> "safe_shutdown",
        orch |-> safe_shutdown(self)]
  ELSE IF level = WARNING
  THEN [is_safe |-> TRUE, action |-> "warning_notice",
        orch |-> safe_shutdown(self)]
  ELSE [is_safe |-> TRUE, action |-> "none", orch |-> self]

\* The policy of perform_safety_check: what it returns and the fields after
\* it, for the level the monitor returned.
safety_policy(self, level, auto_shutdown) ==
  IF level = CRITICAL /\ auto_shutdown
  THEN [is_safe |-> FALSE, action |-> "emergency_shutdown",
        orch |-> emergency_shutdown(self)]
  ELSE IF level = DANGER /\ auto_shutdown
  THEN [is_safe |-> FALSE, action |-> "safe_shutdown",
        orch |-> safe_shutdown(self)]
  ELSE IF level = WARNING
  THEN [is_safe |-> TRUE, action |-> "warning_notice", orch |-> self]
  ELSE [is_safe |-> TRUE, action |-> "none", orch |-> self]

(***************************************************************************)
(* Actions: one per call of a public method or step of the control loop.   *)
(***************************************************************************)
perform_safety_check(sensor_data) ==
  /\ now < MaxChecks
  /\ LET res == check_safety_status(sensor_data, now + 1)
         pol == safety_policy(Orch, res.max_level, auto_shutdown_enabled)
     IN  /\ pol.orch.emergency_shutdown_count <= MaxEmergencyCount
         /\ now' = now + 1
         /\ appended_at' = Append(appended_at, now + 1)
         /\ safety_history' = record_history(safety_history, res.safety_record)
         /\ SetOrch(pol.orch)
         /\ ret' = Returned("perform_safety_check", pol.is_safe, pol.action,
                            res.max_level, FALSE)
  /\ UNCHANGED <<thread_vars, auto_shutdown_enabled, control_parameters, control_threads,
                 sensor_input>>

EmergencyShutdown ==
  /\ emergency_shutdown_count < MaxEmergencyCount
  /\ SetOrch(emergency_shutdown(Orch))
  /\ ret' = ReturnedNone("emergency_shutdown")
  /\ UNCHANGED <<thread_vars, monitor_vars, auto_shutdown_enabled,
                 control_threads, control_parameters, sensor_input>>

SafeShutdown ==
  /\ SetOrch(safe_shutdown(Orch))
  /\ ret' = ReturnedNone("safe_shutdown")
  /\ UNCHANGED <<thread_vars, monitor_vars, auto_shutdown_enabled,
                 control_threads, control_parameters, sensor_input>>

start_real_time_control ==
  /\ control_threads.at_while + control_threads.at_sleep < MaxThreads
  /\ is_running' = TRUE
  /\ system_status' = "running"
  /\ control_threads' = [control_threads EXCEPT !.at_while = @ + 1]
  /\ ret' = ReturnedNone("start_real_time_control")
  /\ UNCHANGED <<thread_vars, monitor_vars, safety_enabled, auto_shutdown_enabled,
                 emergency_shutdown_count, control_parameters, sensor_input>>

\* historical_data is well formed, or malformed (empty): training on it
\* raises inside lstm_predictor.train, before the status is assigned.
initialize_system(historical_data) ==
  /\ IF historical_data = "valid"
     THEN /\ system_status' = "initialized"
          /\ ret' = ReturnedNone("initialize_system")
     ELSE /\ UNCHANGED system_status
          /\ ret' = Returned("initialize_system", TRUE, "none", NORMAL, TRUE)
  /\ UNCHANGED <<thread_vars, monitor_vars, is_running, safety_enabled, auto_shutdown_enabled,
                 emergency_shutdown_count, control_threads, control_parameters, sensor_input>>

\* The presentation layer writes the auto-shutdown flag (pages/page_1.py).
\* Its write of safety_enabled is the operator's re-enable, not an operation
\* of the orchestrator, and is not part of Next.
set_auto_shutdown_enabled(value) ==
  /\ auto_shutdown_enabled' = value
  /\ ret' = ReturnedNone("set_auto_shutdown_enabled")
  /\ UNCHANGED <<thread_vars, monitor_vars, orch_vars, control_threads,
                 control_parameters, sensor_input>>

\* The parameters are read by the control loop alone (they are the target
\* specifications of waveform_adaptive_control): the call is an action of
\* the specification of the loop.
set_control_parameters(params) ==
  /\ control_parameters' =
       [k \in DOMAIN control_parameters \cup DOMAIN params |->
          IF k \in DOMAIN params THEN params[k] ELSE control_parameters[k]]
  /\ ret' = ReturnedNone("set_control_parameters")
  /\ UNCHANGED <<thread_vars, monitor_vars, orch_vars, auto_shutdown_enabled, control_threads,
                 sensor_input>>

\* The snapshot get_system_status returns.
get_system_status ==
  [status |-> system_status, is_running |-> is_running,
   safety_enabled |-> safety_enabled,
   emergency_count |-> emergency_shutdown_count]

\* _real_time_control_loop at "while self.is_running": leave the loop, or
\* find the input queue empty (nothing in the repository puts to it) and go
\* to sleep.
loop_while ==
  /\ control_threads.at_while > 0
  /\ IF is_running
     THEN control_threads' = [at_while |-> control_threads.at_while - 1,
                              at_sleep |-> control_threads.at_sleep + 1]
     ELSE control_threads' = [control_threads EXCEPT !.at_while = @ - 1]
  /\ UNCHANGED <<thread_vars, monitor_vars, orch_vars, auto_shutdown_enabled,
                 control_parameters, sensor_input, ret>>

\* time.sleep(0.01) returns.
loop_sleep ==
  /\ control_threads.at_sleep > 0
  /\ control_threads' = [at_while |-> control_threads.at_while + 1,
                         at_sleep |-> control_threads.at_sleep - 1]
  /\ UNCHANGED <<thread_vars, monitor_vars, orch_vars, auto_shutdown_enabled,
                 control_parameters, sensor_input, ret>>

Next ==
  \/ \E sensor_data \in SensorReadings : perform_safety_check(sensor_data)
  \/ EmergencyShutdown
  \/ SafeShutdown
  \/ start_real_time_control
  \/ \E historical_data \in {"valid", "empty"} : initialize_system(historical_data)
  \/ \E value \in BOOLEAN : set_auto_shutdown_enabled(value)
  \/ loop_while
  \/ loop_sleep

Spec == Init /\ [][Next]_vars

(***************************************************************************)
(* Classification alone: a fresh monitor is handed one reading.            *)
(***************************************************************************)
InitClassify ==
  /\ InitCommon
  /\ sensor_input \in AllReadings

CheckSafetyStatus ==
  /\ now < 1
  /\ LET res == check_safety_status(sensor_input, now + 1)
     IN  /\ now' = now + 1
         /\ appended_at' = Append(appended_at, now + 1)
         /\ safety_history' = record_history(safety_history, res.safety_record)
         /\ ret' = [op |-> "check_safety_status", is_safe |-> TRUE,
                    action |-> "none", level |-> res.max_level,
                    raised |-> FALSE, description |-> res.status_desc]
  /\ UNCHANGED <<thread_vars, orch_vars, auto_shutdown_enabled, control_threads,
                 control_parameters, sensor_input>>

NextClassify == CheckSafetyStatus

SpecClassify == InitClassify /\ [][NextClassify]_vars

(***************************************************************************)
(* The ledger alone: checks append to the history while time passes, and   *)
(* get_safety_summary and get_recent_alerts read it.                       *)
(***************************************************************************)
\* len([r for r in recent_history if r['level'] == level])
CountLevel(records, level) ==
  Len(SelectSeq(records, LAMBDA r : r.level = level))

\* summary[level] / summary['total'] * 100 if summary['total'] > 0 else 0.0,
\* as the fraction num / den.
Percent(count, total) ==
  IF total > 0 THEN [num |-> count * 100, den |-> total]
  ELSE [num |-> 0, den |-> 1]

\* The literal 0.0.
ZeroPercent == [num |-> 0, den |-> 1]

\* The summary of the records recent_history.
summarize(recent_history) ==
  IF recent_history = <<>>
  THEN [total |-> 0, normal |-> 0, warning |-> 0, danger |-> 0,
        critical |-> 0, normal_percent |-> ZeroPercent,
        warning_percent |-> ZeroPercent, danger_percent |-> ZeroPercent,
        critical_percent |-> ZeroPercent]
  ELSE LET total == Len(recent_history)
       IN  [total |-> total,
            normal |-> CountLevel(recent_history, NORMAL),
            warning |-> CountLevel(recent_history, WARNING),
            danger |-> CountLevel(recent_history, DANGER),
            critical |-> CountLevel(recent_history, CRITICAL),
            normal_percent |-> Percent(CountLevel(recent_history, NORMAL), total),
            warning_percent |-> Percent(CountLevel(recent_history, WARNING), total),
            danger_percent |-> Percent(CountLevel(recent_history, DANGER), total),
            critical_percent |-> Percent(CountLevel(recent_history, CRITICAL), total)]

\* Mutant of get_safety_summary: the cutoff is not applied.
get_safety_summary_no_cutoff(history, clock, hours) ==
  [safety_history |-> history, summary |-> summarize(history)]

\* SafetyMonitor.get_safety_summary called when the clock reads clock: the
\* summary it returns and self.safety_history after the call.
get_safety_summary(history, clock, hours) ==
  LET cutoff_time == clock - hours
      recent_history == SelectSeq(history, LAMBDA r : r.timestamp > cutoff_time)
  IN  [safety_history |-> history, summary |-> summarize(recent_history)]

\* sorted(records, key=lambda x: x['timestamp'], reverse=True): a stable
\* sort, records of equal timestamp keep their order.
RECURSIVE sorted_by_timestamp_reverse(_)
sorted_by_timestamp_reverse(records) ==
  IF records = <<>> THEN <<>>
  ELSE LET rest == sorted_by_timestamp_reverse(SubSeq(records, 1, Len(records) - 1))
           x == records[Len(records)]
           k == Len(SelectSeq(rest, LAMBDA r : r.timestamp >= x.timestamp))
       IN  SubSeq(rest, 1, k) \o <<x>> \o SubSeq(rest, k + 1, Len(rest))

\* sorted_list[:count] for count >= 0
FirstCount(s, count) == SubSeq(s, 1, IF count < Len(s) THEN count ELSE Len(s))

\* Mutant of get_recent_alerts: the alerts come back in ledger order.
get_recent_alerts_unsorted(history, count) ==
  LET alerts == SelectSeq(history, LAMBDA r : r.level # NORMAL)
  IN  [safety_history |-> history, alerts |-> FirstCount(alerts, count)]

\* Mutant of get_recent_alerts: the ledger itself is sorted, in place.
get_recent_alerts_in_place(history, count) ==
  LET sorted == sorted_by_timestamp_reverse(history)
      alerts == SelectSeq(sorted, LAMBDA r : r.level # NORMAL)
  IN  [safety_history |-> sorted, alerts |-> FirstCount(alerts, count)]

\* SafetyMonitor.get_recent_alerts (count >= 0): the list it returns and
\* self.safety_history after the call.
get_recent_alerts(history, count) ==
  LET alerts == SelectSeq(history, LAMBDA r : r.level # NORMAL)
  IN  [safety_history |-> history,
       alerts |-> FirstCount(sorted_by_timestamp_reverse(alerts), count)]

\* A direct call of check_safety_status on the monitor.
LedgerCheckSafetyStatus(sensor_data) ==
  /\ now < MaxTime
  /\ LET res == check_safety_status(sensor_data, now + 1)
     IN  /\ now' = now + 1
         /\ appended_at' = Append(appended_at, now + 1)
         /\ safety_history' = record_history(safety_history, res.safety_record)
         /\ ret' = Returned("check_safety_status", TRUE, "none", res.max_level, FALSE)
  /\ UNCHANGED <<thread_vars, orch_vars, auto_shutdown_enabled, control_threads,
                 control_parameters, sensor_input>>

\* Time passes between two calls.
Tick ==
  /\ now < MaxTime
  /\ now' = now + 1
  /\ UNCHANGED <<thread_vars, safety_history, appended_at, orch_vars, auto_shutdown_enabled,
                 control_threads, control_parameters, sensor_input, ret>>

GetSafetySummary(hours) ==
  /\ LET res == get_safety_summary(safety_history, now, hours)
     IN  /\ safety_history' = res.safety_history
         /\ ret' = [op |-> "get_safety_summary", hours |-> hours, at |-> now,
                    summary |-> res.summary]
  /\ UNCHANGED <<thread_vars, now, appended_at, orch_vars, auto_shutdown_enabled,
                 control_threads, control_parameters, sensor_input>>

GetRecentAlerts(count) ==
  /\ LET res == get_recent_alerts(safety_history, count)
     IN  /\ safety_history' = res.safety_history
         /\ ret' = [op |-> "get_recent_alerts", count |-> count,
                    alerts |-> res.alerts]
  /\ UNCHANGED <<thread_vars, now, appended_at, orch_vars, auto_shutdown_enabled,
                 control_threads, control_parameters, sensor_input>>

NextLedger ==
  \/ \E sensor_data \in SensorReadings : LedgerCheckSafetyStatus(sensor_data)
  \/ Tick
  \/ \E hours \in 0..MaxHours : GetSafetySummary(hours)
  \/ \E count \in 0..MaxCount : GetRecentAlerts(count)

SpecLedger == Init /\ [][NextLedger]_vars

\* The readings behind the ledgers get_recent_alerts is applied to: one
\* NORMAL, one WARNING, one CRITICAL.
AlertReadings ==
  {sensor_data \in SensorReadings : sensor_data["voltage"] \in {900, 1100, 1400}}

\* The monitor after n calls of check_safety_status, n below the capacity
\* of the source's ledger (1000), so that no record has been evicted: the
\* i-th record is the one check_safety_status built at time i.
InitAlerts ==
  /\ InitOrch
  /\ InitThreads
  /\ sensor_input = Dict(NormalReading)
  /\ \E n \in 0..MaxLedger :
       \E readings \in [1..n -> AlertReadings] :
         /\ safety_history =
              [i \in 1..n |-> check_safety_status(readings[i], i).safety_record]
         /\ appended_at = [i \in 1..n |-> i]
         /\ now = n

NextAlerts == \E count \in 0..MaxCount : GetRecentAlerts(count)

SpecAlerts == InitAlerts /\ [][NextAlerts]_vars

(***************************************************************************)
(* The control loop, one step per statement.  pc[t] is the position of     *)
(* loop thread t, the item it took from the queue, and a history flag:     *)
(* stop_requested says that a shutdown set is_running to false while the   *)
(* thread was alive.                                                       *)
(***************************************************************************)
\* The items a producer puts on real_time_data: a waveform of fewer than 50
\* samples, or of 50 and more.
Waveforms == {"short", "long"}

\* waveform_adaptive_control on the orchestrator as __init__ builds it: the
\* predictor is untrained (nothing but initialize_system trains it) and the
\* generator is None, so predict raises ValueError on a waveform of 50
\* samples and more, and adaptive_waveform_control raises AttributeError on
\* a shorter one.  The value is the exception raised.
waveform_adaptive_control(current_waveform) ==
  IF current_waveform = "long" THEN "ValueError" ELSE "AttributeError"

LoopPositions == {"while", "empty", "get", "control", "sleep"}

\* Thread t has been started and has neither returned nor died.
Alive(t) == t \in DOMAIN pc /\ pc[t].at \in LoopPositions

\* The history flags after a shutdown.
RequestStop(threads) ==
  [t \in DOMAIN threads |->
     IF threads[t].at \in LoopPositions
     THEN [threads[t] EXCEPT !.stop_requested = TRUE]
     ELSE threads[t]]

\* start_real_time_control: the two assignments and Thread.start().
start_control_thread ==
  /\ Len(pc) < MaxThreads
  /\ is_running' = TRUE
  /\ system_status' = "running"
  /\ pc' = Append(pc, [at |-> "while", current_data |-> "none",
                       stop_requested |-> FALSE])
  /\ UNCHANGED <<monitor_vars, safety_enabled, auto_shutdown_enabled,
                 emergency_shutdown_count, control_parameters, control_threads,
                 sensor_input, ret, real_time_data>>

stop_by_safe_shutdown ==
  /\ SetOrch(safe_shutdown(Orch))
  /\ pc' = RequestStop(pc)
  /\ UNCHANGED <<monitor_vars, auto_shutdown_enabled, control_parameters,
                 control_threads, sensor_input, ret, real_time_data>>

stop_by_emergency_shutdown ==
  /\ emergency_shutdown_count < MaxEmergencyCount
  /\ SetOrch(emergency_shutdown(Orch))
  /\ pc' = RequestStop(pc)
  /\ UNCHANGED <<monitor_vars, auto_shutdown_enabled, control_parameters,
                 control_threads, sensor_input, ret, real_time_data>>

\* A producer puts a waveform on the queue.
real_time_data_put(item) ==
  /\ Len(real_time_data) < MaxQueue
  /\ real_time_data' = Append(real_time_data, item)
  /\ UNCHANGED <<monitor_vars, orch_vars, auto_shutdown_enabled,
                 control_parameters, control_threads, sensor_input, ret, pc>>

loop_unchanged ==
  UNCHANGED <<monitor_vars, orch_vars, auto_shutdown_enabled,
              control_parameters, control_threads, sensor_input, ret>>

\* while self.is_running:
control_loop_while(t) ==
  /\ Alive(t) /\ pc[t].at = "while"
  /\ pc' = [pc EXCEPT ![t].at = IF is_running THEN "empty" ELSE "done"]
  /\ UNCHANGED real_time_data
  /\ loop_unchanged

\* if not self.real_time_data.empty():
control_loop_empty(t) ==
  /\ Alive(t) /\ pc[t].at = "empty"
  /\ pc' = [pc EXCEPT ![t].at = IF real_time_data # <<>> THEN "get" ELSE "sleep"]
  /\ UNCHANGED real_time_data
  /\ loop_unchanged

\* current_data = self.real_time_data.get(): blocks while the queue is empty.
control_loop_get(t) ==
  /\ Alive(t) /\ pc[t].at = "get"
  /\ real_time_data # <<>>
  /\ pc' = [pc EXCEPT ![t].at = "control", ![t].current_data = Head(real_time_data)]
  /\ real_time_data' = Tail(real_time_data)
  /\ loop_unchanged

\* controlled_waveform = self.waveform_adaptive_control(...): the call
\* raises, nothing in the loop catches it, the thread dies.
control_loop_control(t) ==
  /\ Alive(t) /\ pc[t].at = "control"
  /\ pc' = [pc EXCEPT ![t].at = waveform_adaptive_control(pc[t].current_data)]
  /\ UNCHANGED real_time_data
  /\ loop_unchanged

\* time.sleep(0.01) returns.
control_loop_sleep(t) ==
  /\ Alive(t) /\ pc[t].at = "sleep"
  /\ pc' = [pc EXCEPT ![t].at = "while"]
  /\ UNCHANGED real_time_data
  /\ loop_unchanged

NextLoop ==
  \/ start_control_thread
  \/ stop_by_safe_shutdown
  \/ stop_by_emergency_shutdown
  \/ \E item \in Waveforms : real_time_data_put(item)
  \/ \E params \in ParamUpdates : set_control_parameters(params)
  \/ \E t \in 1..MaxThreads :
       \/ control_loop_while(t)
       \/ control_loop_empty(t)
       \/ control_loop_get(t)
       \/ control_loop_control(t)
       \/ control_loop_sleep(t)

SpecLoop == Init /\ [][NextLoop]_vars

(***************************************************************************)
(* Concurrent callers of the orchestrator, one step per field assignment.  *)
(* The orchestrator holds no lock; the callers are the script threads of   *)
(* the presentation layer, which share one cached CentralControlSystem.    *)
(* pc[c] is caller c's position, the call it made (op), the shutdown it    *)
(* runs, and the value it read of emergency_shutdown_count.                *)
(***************************************************************************)
Callers == 1..MaxCallers

InitRace ==
  /\ InitMonitor
  /\ InitOrch
  /\ real_time_data = <<>>
  /\ sensor_input = Dict(NormalReading)
  /\ pc = [c \in Callers |->
             [at |-> "idle", op |-> "none", shutdown |-> "none", count |-> 0]]

race_unchanged ==
  UNCHANGED <<auto_shutdown_enabled, control_parameters, sensor_input, ret,
              real_time_data>>

\* start_real_time_control, first statement: self.is_running = True
start_set_is_running(c) ==
  /\ pc[c].at = "idle"
  /\ is_running' = TRUE
  /\ pc' = [pc EXCEPT ![c].at = "start_set_status",
                      ![c].op = "start_real_time_control"]
  /\ UNCHANGED <<monitor_vars, system_status, safety_enabled,
                 emergency_shutdown_count, control_threads>>
  /\ race_unchanged

\* self.system_status = "running"
start_set_status(c) ==
  /\ pc[c].at = "start_set_status"
  /\ system_status' = "running"
  /\ pc' = [pc EXCEPT ![c].at = "start_thread"]
  /\ UNCHANGED <<monitor_vars, is_running, safety_enabled,
                 emergency_shutdown_count, control_threads>>
  /\ race_unchanged

\* control_thread.start()
start_thread(c) ==
  /\ pc[c].at = "start_thread"
  /\ control_threads' = [control_threads EXCEPT !.at_while = @ + 1]
  /\ pc' = [pc EXCEPT ![c].at = "done"]
  /\ UNCHANGED <<monitor_vars, orch_vars>>
  /\ race_unchanged

\* safe_shutdown, called directly or from perform_safety_check:
\* self.is_running = False
safe_set_is_running(c) ==
  /\ pc[c].at \in {"idle", "safe_shutdown"}
  /\ is_running' = FALSE
  /\ pc' = [pc EXCEPT ![c].at = "safe_set_status",
                      ![c].op = IF pc[c].at = "idle" THEN "safe_shutdown" ELSE @,
                      ![c].shutdown = "safe_shutdown"]
  /\ UNCHANGED <<monitor_vars, system_status, safety_enabled,
                 emergency_shutdown_count, control_threads>>
  /\ race_unchanged

\* self.system_status = "stopped"
safe_set_status(c) ==
  /\ pc[c].at = "safe_set_status"
  /\ system_status' = "stopped"
  /\ pc' = [pc EXCEPT ![c].at = "done"]
  /\ UNCHANGED <<monitor_vars, is_running, safety_enabled,
                 emergency_shutdown_count, control_threads>>
  /\ race_unchanged

\* emergency_shutdown, called directly or from perform_safety_check:
\* self.is_running = False
emergency_set_is_running(c) ==
  /\ pc[c].at \in {"idle", "emergency_shutdown"}
  /\ is_running' = FALSE
  /\ pc' = [pc EXCEPT ![c].at = "emergency_set_status",
                      ![c].op = IF pc[c].at = "idle" THEN "emergency_shutdown" ELSE @,
                      ![c].shutdown = "emergency_shutdown"]
  /\ UNCHANGED <<monitor_vars, system_status, safety_enabled,
                 emergency_shutdown_count, control_threads>>
  /\ race_unchanged

\* self.system_status = "emergency_stopped"
emergency_set_status(c) ==
  /\ pc[c].at = "emergency_set_status"
  /\ system_status' = "emergency_stopped"
  /\ pc' = [pc EXCEPT ![c].at = "emergency_read_count"]
  /\ UNCHANGED <<monitor_vars, is_running, safety_enabled,
                 emergency_shutdown_count, control_threads>>
  /\ race_unchanged

\* self.emergency_shutdown_count += 1, the read of the attribute
emergency_read_count(c) ==
  /\ pc[c].at = "emergency_read_count"
  /\ pc' = [pc EXCEPT ![c].at = "emergency_write_count",
                      ![c].count = emergency_shutdown_count]
  /\ UNCHANGED <<monitor_vars, orch_vars, control_threads>>
  /\ race_unchanged

\* self.emergency_shutdown_count += 1, the store of the sum
emergency_write_count(c) ==
  /\ pc[c].at = "emergency_write_count"
  /\ emergency_shutdown_count' = pc[c].count + 1
  /\ pc' = [pc EXCEPT ![c].at = "emergency_test_count"]
  /\ UNCHANGED <<monitor_vars, is_running, system_status, safety_enabled,
                 control_threads>>
  /\ race_unchanged

\* if self.emergency_shutdown_count >= self.max_emergency_shutdowns:
\*     self.safety_enabled = False
emergency_test_count(c) ==
  /\ pc[c].at = "emergency_test_count"
  /\ safety_enabled' = IF emergency_shutdown_count >= max_emergency_shutdowns
                       THEN FALSE ELSE safety_enabled
  /\ pc' = [pc EXCEPT ![c].at = "done"]
  /\ UNCHANGED <<monitor_vars, is_running, system_status,
                 emergency_shutdown_count, control_threads>>
  /\ race_unchanged

\* perform_safety_check up to the call of the shutdown it decides on.
race_perform_safety_check(c, sensor_data) ==
  /\ pc[c].at = "idle"
  /\ now < MaxChecks
  /\ LET res == check_safety_status(sensor_data, now + 1)
         pol == safety_policy(Orch, res.max_level, auto_shutdown_enabled)
     IN  /\ now' = now + 1
         /\ appended_at' = Append(appended_at, now + 1)
         /\ safety_history' = record_history(safety_history, res.safety_record)
         /\ pc' = [pc EXCEPT ![c].op = "perform_safety_check",
                             ![c].at = IF pol.action \in {"emergency_shutdown", "safe_shutdown"}
                                       THEN pol.action ELSE "done"]
  /\ UNCHANGED <<orch_vars, control_threads>>
  /\ race_unchanged

NextRace ==
  \/ \E c \in Callers :
       \/ start_set_is_running(c)
       \/ start_set_status(c)
       \/ start_thread(c)
       \/ safe_set_is_running(c)
       \/ safe_set_status(c)
       \/ emergency_set_is_running(c)
       \/ emergency_set_status(c)
       \/ emergency_read_count(c)
       \/ emergency_write_count(c)
       \/ emergency_test_count(c)
       \/ \E sensor_data \in SensorReadings : race_perform_safety_check(c, sensor_data)
  \/ loop_while
  \/ loop_sleep

SpecRace == InitRace /\ [][NextRace]_vars

(***************************************************************************)
(* Concurrent callers of the monitor.  check_safety_status is three steps: *)
(* the append, the test of the length with the evaluation of the slice,    *)
(* and the store of the slice into self.safety_history; the monitor holds  *)
(* no lock.  pc[c] is caller c's position and the slice it evaluated.  The *)
(* readers take the ledger as it is at the moment of their call.           *)
(***************************************************************************)
MonitorCallers == 1..MaxMonitorCallers

\* The readings the racing checks classify: one NORMAL, one WARNING.
RaceReadings ==
  {sensor_data \in SensorReadings : sensor_data["voltage"] \in {900, 1100}}

InitMonitorRace ==
  /\ InitMonitor
  /\ InitOrch
  /\ real_time_data = <<>>
  /\ sensor_input = Dict(NormalReading)
  /\ pc = [c \in MonitorCallers |-> [at |-> "idle", sliced |-> <<>>]]

monitor_unchanged ==
  UNCHANGED <<orch_vars, auto_shutdown_enabled, control_parameters,
              control_threads, sensor_input, ret, real_time_data>>

\* check_safety_status up to self.safety_history.append(safety_record)
monitor_append(c, sensor_data) ==
  /\ pc[c].at = "idle"
  /\ now < MaxRaceAppends
  /\ LET res == check_safety_status(sensor_data, now + 1)
     IN  /\ now' = now + 1
         /\ appended_at' = Append(appended_at, now + 1)
         /\ safety_history' = Append(safety_history, res.safety_record)
  /\ pc' = [pc EXCEPT ![c].at = "truncate"]
  /\ monitor_unchanged

\* if len(self.safety_history) > self.max_history_size: the right-hand side
\* self.safety_history[-self.max_history_size:] is evaluated
monitor_truncate_slice(c) ==
  /\ pc[c].at = "truncate"
  /\ IF Len(safety_history) > max_history_size
     THEN pc' = [pc EXCEPT ![c].at = "store",
                           ![c].sliced = SubSeq(safety_history,
                                                Len(safety_history) - max_history_size + 1,
                                                Len(safety_history))]
     ELSE pc' = [pc EXCEPT ![c].at = "idle"]
  /\ UNCHANGED monitor_vars
  /\ monitor_unchanged

\* self.safety_history = <the slice>
monitor_truncate_store(c) ==
  /\ pc[c].at = "store"
  /\ safety_history' = pc[c].sliced
  /\ pc' = [pc EXCEPT ![c].at = "idle", ![c].sliced = <<>>]
  /\ UNCHANGED <<now, appended_at>>
  /\ monitor_unchanged

NextMonitorRace ==
  \/ \E c \in MonitorCallers :
       \/ \E sensor_data \in RaceReadings : monitor_append(c, sensor_data)
       \/ monitor_truncate_slice(c)
       \/ monitor_truncate_store(c)
  \/ GetSafetySummary(MaxHours)
  \/ GetRecentAlerts(MaxCount)

SpecMonitorRace == InitMonitorRace /\ [][NextMonitorRace]_vars

(***************************************************************************)
(* Properties.                                                             *)
(***************************************************************************)
\* The order NORMAL < WARNING < DANGER < CRITICAL.
Rank(level) ==
  CASE level = NORMAL -> 0
    [] level = WARNING -> 1
    [] level = DANGER -> 2
    [] level = CRITICAL -> 3

MaxLevel(levels) == CHOOSE l \in levels : \A k \in levels : Rank(k) <= Rank(l)

NoRuleFired == [max_level |-> NORMAL, warnings_list |-> <<>>]

\* Each rule on its own: the level it gives the reading and whether it fired.
RuleOutcomes(sensor_data) ==
  [voltage |-> voltage_rule(sensor_data, NoRuleFired),
   current |-> current_rule(sensor_data, NoRuleFired),
   temperature |-> temperature_rule(sensor_data, NoRuleFired),
   capacitor_charge |-> capacitor_charge_rule(sensor_data, NoRuleFired),
   insulation_resistance |-> insulation_resistance_rule(sensor_data, NoRuleFired),
   ground_resistance |-> ground_resistance_rule(sensor_data, NoRuleFired)]

\* The rules a reading fires, each with the level (tier) it fires at.
Fired(sensor_data) ==
  LET out == RuleOutcomes(sensor_data)
  IN  {<<rule, out[rule].max_level>> :
         rule \in {r \in DOMAIN out : out[r].warnings_list # <<>>}}

FiredLevels(sensor_data) == {f[2] : f \in Fired(sensor_data)} \cup {NORMAL}

\* A step that is a call of perform_safety_check.
PerformSafetyCheckStep ==
  \E sensor_data \in SensorReadings : perform_safety_check(sensor_data)

\* The reading of the last check: the data of the newest record.
LastChecked == safety_history[Len(safety_history)].data

\* C1: the level check_safety_status returns is the maximum, in the order
\* NORMAL < WARNING < DANGER < CRITICAL, of the levels of the rules that
\* fired (NORMAL if none fired); no later rule lowers an earlier rule's level.
C1_LevelIsMaxOfFired ==
  ret.op = "check_safety_status" =>
    ret.level = MaxLevel(FiredLevels(sensor_input))

\* C2: severity is monotone in the set of violations: a reading whose fired
\* rules (with their tiers) strictly include those of another reading gets a
\* level at least as high.
C2_SeverityMonotone ==
  ret.op = "check_safety_status" =>
    \A other \in AllReadings :
      (Fired(other) \subseteq Fired(sensor_input) /\ Fired(other) # Fired(sensor_input))
        => Rank(check_safety_status(other, now).max_level) <= Rank(ret.level)

\* C3: perform_safety_check with a CRITICAL level and auto-shutdown enabled
\* returns is_safe = false and the emergency-shutdown action, and leaves the
\* orchestrator emergency_stopped, not running, the counter one higher.
C3_CriticalEmergencyShutdown ==
  [][(PerformSafetyCheckStep /\ ret'.level = CRITICAL /\ auto_shutdown_enabled)
       => /\ ret'.is_safe = FALSE
          /\ ret'.action = "emergency_shutdown"
          /\ system_status' = "emergency_stopped"
          /\ is_running' = FALSE
          /\ emergency_shutdown_count' = emergency_shutdown_count + 1]_vars

C3_Witness ==
  /\ ret.op = "perform_safety_check"
  /\ ret.level = CRITICAL
  /\ ret.action = "emergency_shutdown"
  /\ system_status = "emergency_stopped"
  /\ emergency_shutdown_count = 2

\* The case of C4: the check that has just returned saw voltage 1300 against
\* the threshold 1000, every other metric normal, auto-shutdown enabled.
C4_Case ==
  /\ ret.op = "perform_safety_check"
  /\ LastChecked = Dict([NormalReading EXCEPT !.voltage = 1300])
  /\ SafetyThresholds.voltage = 1000
  /\ auto_shutdown_enabled

\* C4 as stated: voltage 1300 against the threshold 1000 gives is_safe =
\* false with the emergency-shutdown action and status emergency_stopped.
C4_Original ==
  C4_Case =>
    /\ ret.is_safe = FALSE
    /\ ret.action = "emergency_shutdown"
    /\ get_system_status.status = "emergency_stopped"

\* C4, amended: voltage 1300 is not above 1.3 times the threshold 1000, the
\* level is DANGER: is_safe = false with the safe-shutdown action, and
\* get_system_status reports status stopped.
C4_Ratio13IsSafeShutdown ==
  C4_Case =>
    /\ ret.is_safe = FALSE
    /\ ret.level = DANGER
    /\ ret.action = "safe_shutdown"
    /\ get_system_status.status = "stopped"
    /\ get_system_status.is_running = FALSE

C4_Witness ==
  /\ C4_Case
  /\ ret.action = "safe_shutdown"
  /\ get_system_status.status = "stopped"

\* C5: with auto-shutdown disabled perform_safety_check still returns
\* is_safe = false for DANGER and CRITICAL (true only for NORMAL and
\* WARNING), and changes neither the status, is_running nor the counter.
C5_DangerReportedWithoutAutoShutdown ==
  [][(PerformSafetyCheckStep /\ ~auto_shutdown_enabled)
       => /\ ret'.is_safe <=> ret'.level \in {NORMAL, WARNING}
          /\ UNCHANGED <<system_status, is_running, emergency_shutdown_count>>]_vars

\* C6: once the emergency counter has reached max_emergency_shutdowns, a
\* check whose reading is CRITICAL or DANGER shuts nothing down: it calls
\* neither emergency_shutdown nor safe_shutdown and the counter stays.
C6_LockoutAfterMaxEmergencies ==
  [][(PerformSafetyCheckStep
        /\ emergency_shutdown_count >= max_emergency_shutdowns
        /\ ret'.level \in {CRITICAL, DANGER})
       => /\ ret'.action \notin {"emergency_shutdown", "safe_shutdown"}
          /\ UNCHANGED orch_vars]_vars

\* C7: from a fresh orchestrator safety_enabled is true while fewer than
\* max_emergency_shutdowns emergency shutdowns have happened, false from the
\* max_emergency_shutdowns-th on, and no operation sets it back to true.
C7_SafetyEnabledUntilMax ==
  /\ [](safety_enabled <=> emergency_shutdown_count < max_emergency_shutdowns)
  /\ [][~safety_enabled => ~safety_enabled']_vars

C7_Witness ==
  /\ ~safety_enabled
  /\ emergency_shutdown_count > max_emergency_shutdowns
  /\ system_status = "running"
  /\ ret.op = "perform_safety_check"

\* C8: once emergency_stopped the status stays emergency_stopped; it can only
\* move to stopped, and only by an explicit safe_shutdown call of the
\* operator: no check, start_real_time_control or initialize_system moves it.
C8_EmergencyStoppedIsSticky ==
  [][system_status = "emergency_stopped"
       => /\ system_status' \in {"emergency_stopped", "stopped"}
          /\ system_status' = "stopped" => SafeShutdown]_vars

\* C9: start_real_time_control takes effect only from stopped or initialized
\* (status running, is_running true, one more control loop); from running
\* or emergency_stopped it changes nothing and starts no loop.
C9_StartOnlyFromStopped ==
  [][start_real_time_control
       => IF system_status \in {"stopped", "initialized"}
          THEN /\ system_status' = "running"
               /\ is_running' = TRUE
               /\ control_threads'.at_while = control_threads.at_while + 1
          ELSE UNCHANGED <<system_status, is_running, control_threads>>]_vars

\* C10: the safety history never holds more than max_history_size records.
C10_HistoryBounded == Len(safety_history) <= max_history_size

\* The history is full and a record has been evicted.
C10_Witness ==
  /\ Len(safety_history) = max_history_size
  /\ now > max_history_size

\* C11: eviction is FIFO: after N + k appends the ledger of capacity N holds
\* exactly the N most recently appended records (told apart by their
\* timestamps) in insertion order; the k oldest are the ones gone.
C11_FifoEviction ==
  LET n == Len(appended_at)
      kept == IF n < max_history_size THEN n ELSE max_history_size
  IN  /\ Len(safety_history) = kept
      /\ \A i \in 1..kept :
           safety_history[i].timestamp = appended_at[n - kept + i]

\* Two records at least have been evicted.
C11_Witness ==
  /\ Len(appended_at) >= max_history_size + 2
  /\ Len(safety_history) = max_history_size
  /\ safety_history[1].timestamp = appended_at[Len(appended_at) - max_history_size + 1]

\* The rule table: the level of one metric's value against its threshold.
RuleTable(metric, value) ==
  LET T == SafetyThresholds[metric]
  IN  CASE metric \in {"voltage", "current"} ->
             IF 10 * value > 13 * T THEN CRITICAL
             ELSE IF 10 * value > 12 * T THEN DANGER
             ELSE IF value > T THEN WARNING
             ELSE NORMAL
        [] metric = "temperature" ->
             IF 10 * value > 12 * T THEN CRITICAL
             ELSE IF 10 * value > 11 * T THEN DANGER
             ELSE NORMAL
        [] metric = "capacitor_charge" -> IF value > T THEN DANGER ELSE NORMAL
        [] metric = "insulation_resistance" -> IF value < T THEN WARNING ELSE NORMAL
        [] metric = "ground_resistance" -> IF value > T THEN WARNING ELSE NORMAL

\* The record the last check appended.
LastRecord == safety_history[Len(safety_history)]

\* C12: a reading with exactly one metric gets the level of the rule table
\* (voltage 1250 against 1000 is DANGER) and one message iff a rule fired;
\* a reading with no metric fires no rule.
C12_SingleMetricRuleTable ==
  ret.op = "check_safety_status" =>
    /\ \A metric \in DOMAIN sensor_input :
         DOMAIN sensor_input = {metric} =>
           /\ ret.level = RuleTable(metric, sensor_input[metric])
           /\ Len(LastRecord.warnings) = IF ret.level = NORMAL THEN 0 ELSE 1
    /\ DOMAIN sensor_input = {} =>
         ret.level = NORMAL /\ LastRecord.warnings = <<>>

C12_Witness ==
  /\ ret.op = "check_safety_status"
  /\ sensor_input = [metric \in {"voltage"} |-> 1250]
  /\ ret.level = DANGER

\* Every metric present is within its threshold, equality included.
WithinThresholds(sensor_data) ==
  \A metric \in DOMAIN sensor_data :
    IF metric = "insulation_resistance"
    THEN sensor_data[metric] >= SafetyThresholds[metric]
    ELSE sensor_data[metric] <= SafetyThresholds[metric]

\* C13: a reading whose metrics are all within their thresholds, a metric
\* equal to its threshold included, is NORMAL with no violation message.
C13_WithinThresholdsIsNormal ==
  (ret.op = "check_safety_status" /\ WithinThresholds(sensor_input)) =>
    /\ ret.level = NORMAL
    /\ LastRecord.warnings = <<>>

\* All six metrics exactly on their thresholds.
C13_Witness ==
  /\ ret.op = "check_safety_status"
  /\ sensor_input = [metric \in {"voltage", "current", "temperature",
                                 "capacitor_charge", "insulation_resistance",
                                 "ground_resistance"} |-> SafetyThresholds[metric]]
  /\ ret.level = NORMAL
  /\ LastRecord.warnings = <<>>

\* C14: perform_safety_check with a DANGER level and auto-shutdown enabled
\* returns is_safe = false and the safe-shutdown action, and leaves the
\* orchestrator stopped, not running, the emergency counter unchanged.
C14_DangerSafeShutdown ==
  [][(PerformSafetyCheckStep /\ ret'.level = DANGER /\ auto_shutdown_enabled)
       => /\ ret'.is_safe = FALSE
          /\ ret'.action = "safe_shutdown"
          /\ system_status' = "stopped"
          /\ is_running' = FALSE
          /\ emergency_shutdown_count' = emergency_shutdown_count]_vars

\* A DANGER check has just stopped a system that had one emergency before.
C14_Witness ==
  /\ ret.op = "perform_safety_check"
  /\ ret.level = DANGER
  /\ ret.action = "safe_shutdown"
  /\ ~ret.is_safe
  /\ system_status = "stopped"
  /\ ~is_running
  /\ emergency_shutdown_count = 1

\* C15: perform_safety_check with a WARNING or NORMAL level returns
\* is_safe = true (action warning notice for WARNING, none for NORMAL) and
\* leaves the status, is_running, the counter and safety_enabled unchanged,
\* in every control state and for either value of auto_shutdown_enabled.
C15_WarningNormalNoStateChange ==
  [][(PerformSafetyCheckStep /\ ret'.level \in {WARNING, NORMAL})
       => /\ ret'.is_safe = TRUE
          /\ ret'.action = IF ret'.level = WARNING THEN "warning_notice" ELSE "none"
          /\ UNCHANGED orch_vars]_vars

\* A WARNING check has returned while the system runs, auto-shutdown off.
C15_Witness ==
  /\ ret.op = "perform_safety_check"
  /\ ret.level = WARNING
  /\ ret.is_safe
  /\ ret.action = "warning_notice"
  /\ system_status = "running"
  /\ is_running
  /\ ~auto_shutdown_enabled

\* C16: emergency_shutdown called while already stopped (status stopped or
\* emergency_stopped, is_running false) leaves the orchestrator state as it
\* was, the emergency counter and safety_enabled included.
C16_EmergencyShutdownIdempotent ==
  [][(EmergencyShutdown /\ ~is_running
        /\ system_status \in {"stopped", "emergency_stopped"})
       => UNCHANGED orch_vars]_vars

\* The records of the ledger stamped inside the closed window
\* [at - hours, at].
InClosedWindow(history, at, hours) ==
  SelectSeq(history, LAMBDA r : r.timestamp >= at - hours /\ r.timestamp <= at)

\* count / total * 100 as a fraction equals the percentage p.
IsPercentOf(p, count, total) == p.num * total = 100 * count * p.den

\* C17: get_safety_summary(window) counts exactly the records stamped in the
\* closed interval [now - window, now]: total is their number, the four
\* counts sum to total, each percentage is its count / total * 100.
C17_ClosedWindowSummary ==
  ret.op = "get_safety_summary" =>
    LET in_window == InClosedWindow(safety_history, ret.at, ret.hours)
        summary == ret.summary
    IN  /\ summary.total = Len(in_window)
        /\ summary.normal = CountLevel(in_window, NORMAL)
        /\ summary.warning = CountLevel(in_window, WARNING)
        /\ summary.danger = CountLevel(in_window, DANGER)
        /\ summary.critical = CountLevel(in_window, CRITICAL)
        /\ summary.normal + summary.warning + summary.danger
             + summary.critical = summary.total
        /\ summary.total > 0 =>
             /\ IsPercentOf(summary.normal_percent, summary.normal, summary.total)
             /\ IsPercentOf(summary.warning_percent, summary.warning, summary.total)
             /\ IsPercentOf(summary.danger_percent, summary.danger, summary.total)
             /\ IsPercentOf(summary.critical_percent, summary.critical, summary.total)

\* C18: get_safety_summary with no ledger record inside the window (empty
\* ledger or every record older than the window) returns total 0, the four
\* counts 0 and the four percentages 0.0.
C18_EmptyWindowAllZero ==
  (/\ ret.op = "get_safety_summary"
   /\ InClosedWindow(safety_history, ret.at, ret.hours) = <<>>)
    => ret.summary =
         [total |-> 0, normal |-> 0, warning |-> 0, danger |-> 0,
          critical |-> 0, normal_percent |-> ZeroPercent,
          warning_percent |-> ZeroPercent, danger_percent |-> ZeroPercent,
          critical_percent |-> ZeroPercent]

\* A summary over a one-hour window of a full ledger whose records are all
\* older than the window.
C18_Witness ==
  /\ ret.op = "get_safety_summary"
  /\ ret.hours = 1
  /\ Len(safety_history) = max_history_size
  /\ \A i \in 1..Len(safety_history) :
       safety_history[i].timestamp < ret.at - ret.hours
  /\ ret.summary.total = 0
  /\ ret.summary.normal_percent = ZeroPercent

\* The positions of the ledger whose record is not NORMAL.
AlertPositions == {i \in 1..Len(safety_history) : safety_history[i].level # NORMAL}

\* C19: get_recent_alerts(count) returns exactly the min(count, number of
\* non-NORMAL records) most recent non-NORMAL ledger records, newest first,
\* and never a NORMAL record.
C19_RecentAlertsNewestFirst ==
  ret.op = "get_recent_alerts" =>
    LET alerts == ret.alerts
        n == Cardinality(AlertPositions)
        k == IF ret.count < n THEN ret.count ELSE n
    IN  /\ Len(alerts) = k
        /\ \A j \in 1..k : alerts[j].level # NORMAL
        /\ \A j \in 1..k : \E i \in AlertPositions : alerts[j] = safety_history[i]
        /\ \A j \in 1..(k - 1) : alerts[j].timestamp > alerts[j + 1].timestamp
        /\ \A i \in AlertPositions :
             (\A j \in 1..k : alerts[j] # safety_history[i])
               => \A j \in 1..k : safety_history[i].timestamp < alerts[j].timestamp

\* get_recent_alerts(3) on a ledger of 5 WARNING and 2 NORMAL records
\* interleaved has returned the WARNING records stamped 7, 6 and 4.
C19_Witness ==
  /\ ret.op = "get_recent_alerts"
  /\ ret.count = 3
  /\ Len(safety_history) = 7
  /\ [i \in 1..7 |-> safety_history[i].level]
       = <<WARNING, NORMAL, WARNING, WARNING, NORMAL, WARNING, WARNING>>
  /\ [j \in 1..3 |-> ret.alerts[j].timestamp] = <<7, 6, 4>>

\* C20: get_safety_summary and get_recent_alerts leave safety_history as it
\* was, same records in the same order; only the append of a check changes it.
C20_QueriesDoNotMutateLedger ==
  [][/\ ((\E hours \in 0..MaxHours : GetSafetySummary(hours))
           \/ (\E count \in 0..MaxCount : GetRecentAlerts(count)))
          => safety_history' = safety_history
     /\ safety_history' # safety_history
          => \E sensor_data \in SensorReadings : LedgerCheckSafetyStatus(sensor_data)]_vars

\* get_recent_alerts has returned both records of a two-record ledger, the
\* newer first, and the ledger still holds the older first.
C20_Witness ==
  /\ ret.op = "get_recent_alerts"
  /\ Len(safety_history) = 2
  /\ Len(ret.alerts) = 2
  /\ safety_history[1].timestamp < safety_history[2].timestamp
  /\ ret.alerts[1] = safety_history[2]
  /\ ret.alerts[2] = safety_history[1]

\* C21: classification is pure: a call of check_safety_status does not
\* append to the safety history, so classifying a reading twice leaves the
\* ledger unchanged.
C21_ClassificationIsPure ==
  [][(\E sensor_data \in SensorReadings : LedgerCheckSafetyStatus(sensor_data))
       => safety_history' = safety_history]_vars

\* C22: initialize_system on malformed (empty) data does not raise out of
\* the call and leaves a stopped system stopped; on valid data it moves a
\* stopped system to initialized.
C22_InitializeReportsFailure ==
  [][/\ initialize_system("empty")
          => /\ ~ret'.raised
             /\ system_status = "stopped" => system_status' = "stopped"
     /\ (initialize_system("valid") /\ system_status = "stopped")
          => system_status' = "initialized"]_vars

\* The metrics in the order check_safety_status evaluates their rules.
EvaluationOrder ==
  <<"voltage", "current", "temperature", "capacitor_charge",
    "insulation_resistance", "ground_resistance">>

\* The message of the rule of a metric that fired at the given level.
RuleMessage(metric, level) ==
  CASE metric \in {"voltage", "current"} /\ level = WARNING -> <<metric, "warning">>
    [] metric \in {"voltage", "current"} /\ level # WARNING -> <<metric, "high">>
    [] metric = "insulation_resistance" -> <<metric, "low">>
    [] OTHER -> <<metric, "high">>

\* The messages of the model's rules, as <<metric, kind>>.
MessageKey(message) ==
  CASE message = "voltage_high" -> <<"voltage", "high">>
    [] message = "voltage_warning" -> <<"voltage", "warning">>
    [] message = "current_high" -> <<"current", "high">>
    [] message = "current_warning" -> <<"current", "warning">>
    [] message = "temperature_high" -> <<"temperature", "high">>
    [] message = "capacitor_charge_high" -> <<"capacitor_charge", "high">>
    [] message = "insulation_resistance_low" -> <<"insulation_resistance", "low">>
    [] message = "ground_resistance_high" -> <<"ground_resistance", "high">>

\* C23: the appended record holds one message per fired rule, all of them,
\* in evaluation order; the description holds the label of the returned
\* level and the first two messages at most.
C23_RecordKeepsAllMessages ==
  ret.op = "check_safety_status" =>
    LET fired == SelectSeq(EvaluationOrder,
                   LAMBDA m : /\ m \in DOMAIN sensor_input
                              /\ RuleTable(m, sensor_input[m]) # NORMAL)
        warnings == LastRecord.warnings
        shown == IF Len(warnings) < 2 THEN Len(warnings) ELSE 2
    IN  /\ Len(warnings) = Len(fired)
        /\ \A i \in 1..Len(fired) :
             MessageKey(warnings[i])
               = RuleMessage(fired[i], RuleTable(fired[i], sensor_input[fired[i]]))
        /\ ret.description.label = warning_levels[ret.level]
        /\ ret.description.shown = SubSeq(warnings, 1, shown)

\* All six rules fired: six messages in the record, two in the description.
C23_Witness ==
  /\ ret.op = "check_safety_status"
  /\ DOMAIN sensor_input = {EvaluationOrder[i] : i \in 1..6}
  /\ Len(LastRecord.warnings) = 6
  /\ Len(ret.description.shown) = 2
  /\ LastRecord.warnings[6] = "ground_resistance_high"

\* C24: at most one _real_time_control_loop thread is alive in any
\* reachable state.
C24_AtMostOneControlLoop ==
  control_threads.at_while + control_threads.at_sleep <= 1

\* C30: system_status is one of stopped, initialized, running,
\* emergency_stopped, and is_running is true exactly when it is running.
C30_StatusMatchesIsRunning ==
  /\ system_status \in {"stopped", "initialized", "running", "emergency_stopped"}
  /\ is_running <=> system_status = "running"

\* C25: a control loop that was alive when a shutdown set is_running to
\* false leaves the loop at its next test of is_running, whatever the
\* callers did in between.
C25_StopIsObserved ==
  [][\A t \in 1..MaxThreads :
       (control_loop_while(t) /\ pc[t].stop_requested) => pc'[t].at = "done"]_vars

\* C29: no loop thread dies of an exception a collaborator raised, and the
\* system is never running (status running, is_running true) with no
\* control loop alive.
C29_LoopSurvivesCollaboratorFailure ==
  /\ \A t \in DOMAIN pc : pc[t].at \notin {"ValueError", "AttributeError"}
  /\ (system_status = "running" /\ is_running) => \E t \in DOMAIN pc : Alive(t)

\* No concurrent call is in progress.
Quiescent == \A c \in DOMAIN pc : pc[c].at \in {"idle", "done"}

\* The callers whose call has returned.
Finished == {c \in DOMAIN pc : pc[c].at = "done"}

\* The orchestrator's fields after construction.
ConstructedOrch ==
  [is_running |-> FALSE, system_status |-> "stopped",
   safety_enabled |-> TRUE, emergency_shutdown_count |-> 0]

\* The fields after a whole start_real_time_control.
StartedOrch(self) ==
  [self EXCEPT !.is_running = TRUE, !.system_status = "running"]

\* The fields after a whole shutdown of the given kind.
ShutdownOrch(kind, self) ==
  IF kind = "emergency_shutdown" THEN emergency_shutdown(self)
  ELSE safe_shutdown(self)

\* C26: start_real_time_control running concurrently with a shutdown ends,
\* once both have finished, in the state of one of the two sequential
\* orders; no quiescent state has is_running true with status stopped or
\* emergency_stopped.
C26_StartAndShutdownSerialize ==
  Quiescent =>
    /\ ~(is_running /\ system_status \in {"stopped", "emergency_stopped"})
    /\ \A a, b \in Finished :
         (/\ Finished = {a, b}
          /\ pc[a].op = "start_real_time_control"
          /\ pc[b].shutdown # "none")
           => Orch \in {ShutdownOrch(pc[b].shutdown, StartedOrch(ConstructedOrch)),
                        StartedOrch(ShutdownOrch(pc[b].shutdown, ConstructedOrch))}

\* C27: once k concurrent emergency_shutdown calls have all completed,
\* emergency_shutdown_count is its initial value plus k, and safety_enabled
\* is false when that is at least max_emergency_shutdowns.
C27_NoLostEmergencyCount ==
  Quiescent =>
    LET k == Cardinality({c \in Finished : pc[c].shutdown = "emergency_shutdown"})
    IN  /\ emergency_shutdown_count = ConstructedOrch.emergency_shutdown_count + k
        /\ k >= max_emergency_shutdowns => ~safety_enabled

\* C28: with appends and reads interleaved, every read observes a ledger
\* within its capacity whose per-level counts sum to its total, and when no
\* append is in progress the ledger holds the newest appended records, in
\* append order: none is lost but by eviction of the oldest.
C28_LedgerReadsAndAppendsDoNotRace ==
  /\ ret.op = "get_safety_summary" =>
       /\ ret.summary.total <= max_history_size
       /\ ret.summary.normal + ret.summary.warning + ret.summary.danger
            + ret.summary.critical = ret.summary.total
  /\ ret.op = "get_recent_alerts" => Len(ret.alerts) <= max_history_size
  /\ Quiescent =>
       LET n == Len(appended_at)
           kept == IF n < max_history_size THEN n ELSE max_history_size
       IN  /\ Len(safety_history) = kept
           /\ \A i \in 1..kept :
                safety_history[i].timestamp = appended_at[n - kept + i]

====
